---- MODULE Spec2Model ----
(***************************************************************************)
(* State-machine model of the recommendation core of                       *)
(* src/recommendersystem2.py (class RealDataSFDogMatcher): catalog          *)
(* construction from the five source tables, the server bootstrap, and the  *)
(* request callback update_recommendations with the scoring, ranking and    *)
(* impact functions it calls.                                               *)
(*                                                                          *)
(* Representation of Python values                                          *)
(*   - a CSV cell that pandas reads as NaN is the empty text: "" for a      *)
(*     string cell, << >> for a cell modelled as a sequence of characters;  *)
(*   - name and breed are sequences of one-character strings, so that       *)
(*     slicing, lower() and the substring test are computed;                *)
(*   - a numeric cell of a boolean-like column is the text of the number    *)
(*     after a # sign ("#0", "#1", "#2"); "True" and "False" in such a      *)
(*     column are the Python booleans and every other text is a str;        *)
(*   - Python's None is << >> where an optional value is modelled as a      *)
(*     sequence of length 0 or 1 (real_data), and NoneValue for an input;   *)
(*   - floats are exact rationals.  round(x, 1) values (safety_score,       *)
(*     walkability_score, walk_index) are stored in tenths.  The match      *)
(*     functions return scaled integers (see each), and compatibility_score *)
(*     is the fraction [n, d] with d > 0.  safety_improvement and           *)
(*     monthly_exercise are stored in tenths;                               *)
(*   - a dict is a record/function; a key a dict does not have is not in    *)
(*     its DOMAIN.  The ordered dict neighborhoods is a sequence of         *)
(*     [key, value] entries in insertion order;                             *)
(*   - every dog dict lives in heap and lists hold references (indices of   *)
(*     heap), so that aliasing between the catalog list and a request's     *)
(*     list is part of the model.                                           *)
(***************************************************************************)
EXTENDS Integers, Sequences, FiniteSets, TLC

VARIABLES
    files_missing,        \* the source files whose pd.read_csv raises
    csv,                  \* the content of the five source tables
    main_pc,              \* position of main(): "start", "constructed", "serving", "exited"
    real_data,            \* self.real_data: << >> is None, <<d>> is the dict d
    heap,                 \* the dog dicts, by reference
    callback_registered,  \* setup_callbacks registered update_recommendations
    server_running,       \* self.app.run was entered
    last_call,            \* the arguments of the last callback invocation, << >> before any
    outcome,              \* what the last callback invocation returned
    repeat,               \* the last invocation had the arguments of the one before it
    th,                   \* the callback invocations in flight, per server thread
    probe                 \* arguments and result of a direct application of the scoring functions

vars == <<files_missing, csv, main_pc, real_data, heap, callback_registered,
          server_running, last_call, outcome, repeat, th, probe>>

-----------------------------------------------------------------------------
(* Arithmetic *)

Min(a, b) == IF a <= b THEN a ELSE b

Max(a, b) == IF a >= b THEN a ELSE b

Abs(a) == IF a >= 0 THEN a ELSE -a

\* round(num/den, 0) for den > 0, ties to even (Python's round on an exact value)
RoundRat(num, den) ==
    LET q == num \div den
        r == num % den
    IN  IF 2 * r < den THEN q
        ELSE IF 2 * r > den THEN q + 1
        ELSE IF q % 2 = 0 THEN q ELSE q + 1

RECURSIVE SumSeq(_)
SumSeq(s) == IF s = << >> THEN 0 ELSE Head(s) + SumSeq(Tail(s))

\* s[:n]
Take(s, n) == SubSeq(s, 1, Min(Len(s), n))

SeqsUpTo(S, n) == UNION {[1..k -> S] : k \in 0..n}

Range(s) == {s[i] : i \in DOMAIN s}

-----------------------------------------------------------------------------
(* Text *)

\* str.lower() on one character
LowerChar(c) ==
    CASE c = "A" -> "a" [] c = "B" -> "b" [] c = "C" -> "c" [] c = "D" -> "d"
      [] c = "E" -> "e" [] c = "F" -> "f" [] c = "G" -> "g" [] c = "H" -> "h"
      [] c = "I" -> "i" [] c = "J" -> "j" [] c = "K" -> "k" [] c = "L" -> "l"
      [] c = "M" -> "m" [] c = "N" -> "n" [] c = "O" -> "o" [] c = "P" -> "p"
      [] c = "Q" -> "q" [] c = "R" -> "r" [] c = "S" -> "s" [] c = "T" -> "t"
      [] c = "U" -> "u" [] c = "V" -> "v" [] c = "W" -> "w" [] c = "X" -> "x"
      [] c = "Y" -> "y" [] c = "Z" -> "z" [] OTHER -> c

Lower(s) == [i \in DOMAIN s |-> LowerChar(s[i])]

\* the Python test  sub in s
Contains(s, sub) ==
    \E k \in 0..(Len(s) - Len(sub)) : SubSeq(s, k + 1, k + Len(sub)) = sub

\* str(cell) of a string cell: NaN prints as nan
Str(cell) == IF cell = "" THEN "nan" ELSE cell

\* str(cell) of a character-sequence cell
StrChars(cell) == IF cell = << >> THEN <<"n", "a", "n">> ELSE cell

-----------------------------------------------------------------------------
(* Neighborhood Profile Builder: _process_neighborhood_data *)

\* a rent_avg cell on which the arithmetic of the loop body raises
Unparsable == -1

AppendNew(s, x) == IF x \in Range(s) THEN s ELSE Append(s, x)

RECURSIVE Unique(_)
\* Series.unique(): the distinct values in order of first appearance
Unique(s) ==
    IF s = << >> THEN << >>
    ELSE AppendNew(Unique(SubSeq(s, 1, Len(s) - 1)), s[Len(s)])

Column(df, col) == [i \in DOMAIN df |-> df[i][col]]

\* rental_df['analysis_neighborhood'].dropna().unique()
unique_neighborhoods(rental_df) ==
    Unique(SelectSeq(Column(rental_df, "analysis_neighborhood"), LAMBDA n : n # ""))

max_crimes == 200

\* the boundaries taken on the other side: <= where the code has <
ProtectionNeedInclusive(sn) ==
    IF sn <= 40 * max_crimes THEN "Very High"
    ELSE IF sn <= 60 * max_crimes THEN "High"
    ELSE IF sn <= 80 * max_crimes THEN "Medium"
    ELSE "Low"

\* protection_need of the unrounded safety_score sn / max_crimes
ProtectionNeed(sn) ==
    IF sn < 40 * max_crimes THEN "Very High"
    ELSE IF sn < 60 * max_crimes THEN "High"
    ELSE IF sn < 80 * max_crimes THEN "Medium"
    ELSE "Low"

\* safety_score without max(0, ...)
SafetyScoreUnclamped(crime_count) == 100 * max_crimes - 100 * crime_count

\* safety_score = max(0, 100 - crime_count / max_crimes * 100), as the numerator of
\* the fraction sn / max_crimes
SafetyScore(crime_count) == Max(0, 100 * max_crimes - 100 * crime_count)

\* budget_limit without the minimum of 50
BudgetLimitNoMinimum(rn, rd) == RoundRat(5 * rn, 100 * rd)

\* round(max(50, avg_rent * 0.05), 0) for avg_rent = rn / rd
BudgetLimit(rn, rd) == Max(50, RoundRat(5 * rn, 100 * rd))

\* round(min(100, walk_score / 20 * 100), 1) in tenths, for walk_score = wn / wd
WalkabilityScore(wn, wd) == Min(1000, RoundRat(10 * 100 * wn, 20 * wd))

\* The derived metrics of one neighborhood from its crime count, the NatWalkInd
\* values of its walkability rows and the rent_avg values of its rental rows.
NeighborhoodProfile(crime_count, walk_vals, rent_vals) ==
    LET \* walk_score = mean or 10, as the fraction wn / wd
        wn == IF Len(walk_vals) > 0 THEN SumSeq(walk_vals) ELSE 10
        wd == IF Len(walk_vals) > 0 THEN Len(walk_vals) ELSE 1
        \* avg_rent = mean or 3000, as the fraction rn / rd
        rn == IF Len(rent_vals) > 0 THEN SumSeq(rent_vals) ELSE 3000
        rd == IF Len(rent_vals) > 0 THEN Len(rent_vals) ELSE 1
        sn == SafetyScore(crime_count)
    IN  [ safety_score      |-> RoundRat(10 * sn, max_crimes),
          walkability_score |-> WalkabilityScore(wn, wd),
          avg_rent          |-> RoundRat(rn, rd),
          crime_count       |-> crime_count,
          protection_need   |-> ProtectionNeed(sn),
          budget_limit      |-> BudgetLimit(rn, rd),
          walk_index        |-> RoundRat(10 * wn, wd) ]

\* the body of the try block for one neighborhood raises
NeighborhoodRaises(rental_df, neighborhood) ==
    \E i \in DOMAIN rental_df :
        /\ rental_df[i].analysis_neighborhood = neighborhood
        /\ rental_df[i].rent_avg = Unparsable

\* the body of the try block for one neighborhood.  A row of crime_df stands for
\* `rows` consecutive crime rows of the same neighborhood, so that
\* len(neighborhood_crimes) is the sum of the matching rows' counts.
NeighborhoodEntry(rental_df, crime_df, walkability_df, neighborhood) ==
    LET neighborhood_crimes == SelectSeq(crime_df,
            LAMBDA r : r.Analysis_Neighborhood = neighborhood)
        neighborhood_walk == SelectSeq(walkability_df,
            LAMBDA r : r.neighborhood_name = neighborhood)
        neighborhood_rent == SelectSeq(rental_df,
            LAMBDA r : r.analysis_neighborhood = neighborhood)
    IN  [ key   |-> neighborhood,
          value |-> NeighborhoodProfile(SumSeq(Column(neighborhood_crimes, "rows")),
                                        Column(neighborhood_walk, "NatWalkInd"),
                                        Column(neighborhood_rent, "rent_avg")) ]

RECURSIVE NeighborhoodLoop(_, _, _, _)
\* the for loop: a neighborhood whose body raises is skipped (continue)
NeighborhoodLoop(names, rental_df, crime_df, walkability_df) ==
    IF names = << >> THEN << >>
    ELSE LET rest == NeighborhoodLoop(Tail(names), rental_df, crime_df, walkability_df)
         IN  IF NeighborhoodRaises(rental_df, Head(names)) THEN rest
             ELSE <<NeighborhoodEntry(rental_df, crime_df, walkability_df, Head(names))>>
                  \o rest

_process_neighborhood_data(rental_df, crime_df, walkability_df) ==
    NeighborhoodLoop(unique_neighborhoods(rental_df), rental_df, crime_df, walkability_df)

\* dict.get(key) falling back to the first entry for a key the dict does not have
DictGetOrFirst(d, key) ==
    LET hits == SelectSeq(d, LAMBDA e : e.key = key)
    IN  IF hits # << >> THEN <<hits[1].value>>
        ELSE IF d # << >> THEN <<d[1].value>> ELSE << >>

\* dict.get(key): << >> is None
DictGet(d, key) ==
    LET hits == SelectSeq(d, LAMBDA e : e.key = key)
    IN  IF hits = << >> THEN << >> ELSE <<hits[1].value>>

DictKeys(d) == {d[i].key : i \in DOMAIN d}

-----------------------------------------------------------------------------
(* Dog Profile Builder: _process_dog_data and the score functions it calls *)

sf_zip_codes ==
    { "94102", "94103", "94104", "94105", "94107", "94108", "94109", "94110",
      "94111", "94112", "94114", "94115", "94116", "94117", "94118", "94121",
      "94122", "94123", "94124", "94127", "94131", "94132", "94133", "94134" }

\* .head(20)
HeadLimit == 20

protective_breeds ==
    { <<"g","e","r","m","a","n"," ","s","h","e","p","h","e","r","d">>,
      <<"p","i","t"," ","b","u","l","l">>,
      <<"r","o","t","t","w","e","i","l","e","r">>,
      <<"m","a","s","t","i","f","f">>,
      <<"d","o","b","e","r","m","a","n">>,
      <<"b","o","x","e","r">>,
      <<"b","u","l","l","d","o","g">>,
      <<"b","e","l","g","i","a","n">>,
      <<"a","k","i","t","a">> }

\* the score on a base of 0 instead of 40
ProtectionScoreNoBase(size, breed, age) ==
    LET base == 0
        size_factor == IF size = "Large" THEN 30
                       ELSE IF size = "Medium" THEN 20
                       ELSE IF size = "Extra Large" THEN 35
                       ELSE IF size = "Small" THEN 5
                       ELSE 0
        breed_lower == Lower(breed)
        breed_factor == IF \E pb \in protective_breeds : Contains(breed_lower, pb)
                        THEN 25 ELSE 0
        age_factor == IF age \in {"Adult", "Senior"} THEN 10
                      ELSE IF age = "Young" THEN 5
                      ELSE 0
    IN  Min(100, base + size_factor + breed_factor + age_factor)

\* the score without min(100, ...)
ProtectionScoreUnclamped(size, breed, age) ==
    LET base == 40
        size_factor == IF size = "Large" THEN 30
                       ELSE IF size = "Medium" THEN 20
                       ELSE IF size = "Extra Large" THEN 35
                       ELSE IF size = "Small" THEN 5
                       ELSE 0
        breed_lower == Lower(breed)
        breed_factor == IF \E pb \in protective_breeds : Contains(breed_lower, pb)
                        THEN 25 ELSE 0
        age_factor == IF age \in {"Adult", "Senior"} THEN 10
                      ELSE IF age = "Young" THEN 5
                      ELSE 0
    IN  base + size_factor + breed_factor + age_factor

_calculate_protection_score(size, breed, age) ==
    LET base == 40
        size_factor == IF size = "Large" THEN 30
                       ELSE IF size = "Medium" THEN 20
                       ELSE IF size = "Extra Large" THEN 35
                       ELSE IF size = "Small" THEN 5
                       ELSE 0
        breed_lower == Lower(breed)
        breed_factor == IF \E pb \in protective_breeds : Contains(breed_lower, pb)
                        THEN 25 ELSE 0
        age_factor == IF age \in {"Adult", "Senior"} THEN 10
                      ELSE IF age = "Young" THEN 5
                      ELSE 0
    IN  Min(100, base + size_factor + breed_factor + age_factor)

\* str.lower() on the text of a boolean-like cell
LowerText(v) ==
    CASE v = "Yes" -> "yes" [] v = "YES" -> "yes" [] v = "No" -> "no"
      [] v = "Y" -> "y" [] v = "TRUE" -> "true" [] OTHER -> v

\* the numeric cells of a boolean-like column and their numbers
NumberCells == {"#0", "#1", "#2"}

NumberOf(cell) == CASE cell = "#0" -> 0 [] cell = "#1" -> 1 [] cell = "#2" -> 2

\* the coercion comparing the text as it is, without lower()
ParseBooleanCaseSensitive(value) ==
    IF value = "" THEN FALSE
    ELSE IF value \in {"True", "False"} THEN value = "True"
    ELSE IF value \notin NumberCells THEN value \in {"true", "yes", "1", "y"}
    ELSE NumberOf(value) # 0

\* The cells of a boolean-like column: "" is NaN, "True" and "False" are the
\* Python booleans, a cell of NumberCells is a number, any other text is a str.
_parse_boolean_safe(value) ==
    IF value = "" THEN FALSE
    ELSE IF value \in {"True", "False"} THEN value = "True"
    ELSE IF value \notin NumberCells THEN LowerText(value) \in {"true", "yes", "1", "y"}
    ELSE NumberOf(value) # 0

\* Python truthiness of such a cell (if special_needs:): NaN and every
\* non-empty str are truthy, a number is truthy unless it is 0
Truthy(value) == IF value \in NumberCells THEN NumberOf(value) # 0 ELSE value # "False"

_calculate_family_score(dog) ==
    Min(100, 60
        + (IF _parse_boolean_safe(dog.good_with_children) THEN 30 ELSE 0)
        + (IF _parse_boolean_safe(dog.house_trained) THEN 15 ELSE 0)
        + (IF _parse_boolean_safe(dog.shots_current) THEN 10 ELSE 0)
        + (IF _parse_boolean_safe(dog.spayed_neutered) THEN 10 ELSE 0)
        + (IF ~_parse_boolean_safe(dog.special_needs) THEN 5 ELSE 0))

_calculate_training_score(dog, age) ==
    Min(100, 50
        + (IF _parse_boolean_safe(dog.house_trained) THEN 30 ELSE 0)
        + (IF age = "Young" THEN 20
           ELSE IF age = "Adult" THEN 15
           ELSE IF age = "Baby" THEN 10
           ELSE 0)
        + (IF ~_parse_boolean_safe(dog.special_needs) THEN 15 ELSE 0))

base_costs(size) ==
    CASE size = "Small" -> 70
      [] size = "Medium" -> 95
      [] size = "Large" -> 125
      [] size = "Extra Large" -> 155
      [] OTHER -> 95

_calculate_monthly_cost(size, special_needs) ==
    LET cost == base_costs(size)
    IN  IF Truthy(special_needs) THEN RoundRat(cost * 14, 10) ELSE cost

LocalSFShelter ==
    <<"L","o","c","a","l"," ","S","F"," ","S","h","e","l","t","e","r">>

_get_shelter_info(org_id, organizations_df) ==
    LET org == SelectSeq(organizations_df, LAMBDA o : o.organization_id = org_id)
    IN  IF Len(org) > 0
        THEN [ name  |-> Take(StrChars(org[1].name), 40),
               phone |-> Str(org[1].phone) ]
        ELSE [ name  |-> LocalSFShelter,
               phone |-> "(415) 555-0000" ]

\* organizations_df filtered to the SF area, with the broader CA fallback
sf_orgs_of(organizations_df) ==
    LET sf == SelectSeq(organizations_df,
                  LAMBDA o : o.address_state = "CA" /\ o.address_postcode \in sf_zip_codes)
    IN  IF Len(sf) = 0
        THEN Take(SelectSeq(organizations_df, LAMBDA o : o.address_state = "CA"), HeadLimit)
        ELSE sf

\* the rows of every dog, whatever its organization
sf_dogs_unfiltered(animals_df, organizations_df) ==
    SelectSeq(animals_df, LAMBDA a : a.type = "Dog")

\* the rows the for loop iterates over
sf_dogs_of(animals_df, organizations_df) ==
    LET dogs_df == SelectSeq(animals_df, LAMBDA a : a.type = "Dog")
        sf_org_ids == Range(Column(sf_orgs_of(organizations_df), "organization_id"))
        sf_dogs == SelectSeq(dogs_df, LAMBDA a : a.organization_id \in sf_org_ids)
        ca_orgs == SelectSeq(organizations_df, LAMBDA o : o.address_state = "CA")
        ca_org_ids == Range(Column(ca_orgs, "organization_id"))
    IN  IF Len(sf_dogs) = 0
        THEN Take(SelectSeq(dogs_df, LAMBDA a : a.organization_id \in ca_org_ids), HeadLimit)
        ELSE sf_dogs

\* the body of the try block raises: a NaN name is a float, and
\* dog.get('name', ...)[:30] slices it before str() is applied
DogRaises(dog) == dog.name = << >>

\* the body of the try block for one row: the dict appended to dogs
DogEntry(dog, sf_orgs) ==
    LET name == Take(dog.name, 30)
        breed == Take(StrChars(dog.primary_breed), 30)
        size == Str(dog.size)
        age == Str(dog.age)
        shelter_info == _get_shelter_info(dog.organization_id, sf_orgs)
    IN  [ name               |-> name,
          breed              |-> breed,
          size               |-> size,
          age                |-> age,
          protection_score   |-> _calculate_protection_score(size, breed, age),
          family_score       |-> _calculate_family_score(dog),
          training_score     |-> _calculate_training_score(dog, age),
          monthly_cost       |-> _calculate_monthly_cost(size, dog.special_needs),
          good_with_children |-> _parse_boolean_safe(dog.good_with_children),
          house_trained      |-> _parse_boolean_safe(dog.house_trained),
          shelter            |-> shelter_info.name,
          shelter_phone      |-> shelter_info.phone ]

RECURSIVE DogLoopAborting(_, _)
\* the for loop with break in the except clause: the first row that raises ends
\* the batch
DogLoopAborting(rows, sf_orgs) ==
    IF rows = << >> THEN << >>
    ELSE IF DogRaises(Head(rows)) THEN << >>
    ELSE <<DogEntry(Head(rows), sf_orgs)>> \o DogLoopAborting(Tail(rows), sf_orgs)

RECURSIVE DogLoop(_, _)
\* the for loop: a row whose body raises is skipped (continue)
DogLoop(rows, sf_orgs) ==
    IF rows = << >> THEN << >>
    ELSE LET rest == DogLoop(Tail(rows), sf_orgs)
         IN  IF DogRaises(Head(rows)) THEN rest
             ELSE <<DogEntry(Head(rows), sf_orgs)>> \o rest

\* the list of dog dicts, in the order they are appended
_process_dog_data(animals_df, organizations_df) ==
    DogLoop(sf_dogs_of(animals_df, organizations_df), sf_orgs_of(organizations_df))

-----------------------------------------------------------------------------
(* Catalog construction: __init__, _load_real_data, run_server *)

FileNames == {"rental", "crime", "walkability", "organizations", "animals"}

\* _load_real_data with each read_csv guarded on its own: a file that cannot be
\* read counts as an empty table and the load goes on
LoadSkippingMissingFiles(missing, tables) ==
    LET t == [f \in FileNames |-> IF f \in missing THEN << >> ELSE tables[f]]
    IN  << [ neighborhoods |-> _process_neighborhood_data(t.rental, t.crime, t.walkability),
             dogs          |-> _process_dog_data(t.animals, t.organizations) ] >>

\* _load_real_data: None when a read_csv raises, else the dict of both collections
\* (dogs still as the list of dicts; __init__ below places them in heap)
_load_real_data(missing, tables) ==
    IF missing # {} THEN << >>
    ELSE << [ neighborhoods |-> _process_neighborhood_data(
                                    tables.rental, tables.crime, tables.walkability),
              dogs          |-> _process_dog_data(tables.animals, tables.organizations) ] >>

\* if not self.real_data: return   (in __init__, setup_callbacks and run_server)
DataLoaded(rd) == rd # << >>

\* __init__
Constructed(loaded) ==
    /\ heap' = IF DataLoaded(loaded) THEN loaded[1].dogs ELSE << >>
    /\ real_data' =
          IF DataLoaded(loaded)
          THEN << [ neighborhoods |-> loaded[1].neighborhoods,
                    dogs          |-> [i \in DOMAIN loaded[1].dogs |-> i] ] >>
          ELSE << >>
    /\ callback_registered' = DataLoaded(loaded)

Construct ==
    /\ main_pc = "start"
    /\ Constructed(_load_real_data(files_missing, csv))
    /\ main_pc' = "constructed"
    /\ UNCHANGED <<files_missing, csv, server_running, last_call, outcome, repeat, th, probe>>

\* run_server
RunServer ==
    /\ main_pc = "constructed"
    /\ server_running' = DataLoaded(real_data)
    /\ main_pc' = IF DataLoaded(real_data) THEN "serving" ELSE "exited"
    /\ UNCHANGED <<files_missing, csv, real_data, heap, callback_registered,
                   last_call, outcome, repeat, th, probe>>

-----------------------------------------------------------------------------
(* Scoring Engine *)

\* safety match without the min(100, ...) of the Very High branch
SafetyMatchUnclamped(neighborhood_data, dog) ==
    LET protection_need == neighborhood_data.protection_need
        dog_protection == dog.protection_score
    IN  IF protection_need = "Very High" THEN 12 * dog_protection
        ELSE IF protection_need = "High" THEN 10 * dog_protection
        ELSE IF protection_need = "Medium" THEN 1000 - 5 * Abs(dog_protection - 60)
        ELSE IF dog_protection > 40 THEN 1000 - 3 * (dog_protection - 40) ELSE 1000

\* safety match in tenths
_calculate_safety_match(neighborhood_data, dog) ==
    LET protection_need == neighborhood_data.protection_need
        dog_protection == dog.protection_score
    IN  IF protection_need = "Very High" THEN Min(1000, 12 * dog_protection)
        ELSE IF protection_need = "High" THEN 10 * dog_protection
        ELSE IF protection_need = "Medium" THEN 1000 - 5 * Abs(dog_protection - 60)
        ELSE IF dog_protection > 40 THEN 1000 - 3 * (dog_protection - 40) ELSE 1000

\* budget match without the max(0, ...) of the last branch
BudgetMatchUnclamped(neighborhood_data, dog) ==
    LET budget_limit == neighborhood_data.budget_limit
        dog_cost == dog.monthly_cost
    IN  IF dog_cost <= budget_limit THEN 100 * budget_limit
        ELSE IF 10 * dog_cost <= 12 * budget_limit THEN 80 * budget_limit
        ELSE 100 * budget_limit - (dog_cost - budget_limit) * 100

\* budget match multiplied by budget_limit (the division by budget_limit is exact
\* as the fraction result / budget_limit)
_calculate_budget_match(neighborhood_data, dog) ==
    LET budget_limit == neighborhood_data.budget_limit
        dog_cost == dog.monthly_cost
    IN  IF dog_cost <= budget_limit THEN 100 * budget_limit
        ELSE IF 10 * dog_cost <= 12 * budget_limit THEN 80 * budget_limit
        ELSE Max(0, 100 * budget_limit - (dog_cost - budget_limit) * 100)

pref_scores(protection_pref) ==
    CASE protection_pref = "Low" -> <<0, 40>>
      [] protection_pref = "Medium" -> <<40, 70>>
      [] protection_pref = "High" -> <<70, 85>>
      [] protection_pref = "Very High" -> <<85, 100>>

\* preference match, a whole number
_calculate_preference_match(protection_pref, dog) ==
    LET min_score == pref_scores(protection_pref)[1]
        max_score == pref_scores(protection_pref)[2]
        dog_score == dog.protection_score
    IN  IF min_score <= dog_score /\ dog_score <= max_score THEN 100
        ELSE LET distance == Min(Abs(dog_score - min_score), Abs(dog_score - max_score))
             IN  Max(0, 100 - distance * 2)

\* safety_match * 0.4 + budget_match * 0.3 + preference_match * 0.3 as the
\* fraction n / d
CombinedScore(neighborhood_data, protection_pref, dog) ==
    LET bl == neighborhood_data.budget_limit
        safety_match == _calculate_safety_match(neighborhood_data, dog)
        budget_match == _calculate_budget_match(neighborhood_data, dog)
        preference_match == _calculate_preference_match(protection_pref, dog)
    IN  [ n |-> (2 * safety_match + 15 * preference_match) * bl + 15 * budget_match,
          d |-> 50 * bl ]

PerRequestFields ==
    {"compatibility_score", "safety_improvement", "monthly_exercise", "deterrent_effect"}

\* dog[key] = value for each key of `fields`
Assign(dog, fields) ==
    [k \in DOMAIN dog \cup DOMAIN fields |-> IF k \in DOMAIN fields THEN fields[k] ELSE dog[k]]

\* the loop body with safety_improvement accumulated (+=) under its cap instead
\* of assigned
ScoreDogAccumulating(neighborhood_data, protection_pref, dog) ==
    LET before == IF "safety_improvement" \in DOMAIN dog THEN dog.safety_improvement ELSE 0
    IN  Assign(dog,
            [ compatibility_score |-> CombinedScore(neighborhood_data, protection_pref, dog),
              safety_improvement  |-> Min(300, before + dog.protection_score * 3),
              monthly_exercise    |-> 600 + dog.protection_score * 5,
              deterrent_effect    |-> IF dog.protection_score >= 80 THEN "High"
                                      ELSE IF dog.protection_score >= 60 THEN "Medium"
                                      ELSE "Low" ])

\* the body of the scoring loop for one dog: the dict after the four assignments
ScoreDog(neighborhood_data, protection_pref, dog) ==
    Assign(dog,
        [ compatibility_score |-> CombinedScore(neighborhood_data, protection_pref, dog),
          safety_improvement  |-> Min(300, dog.protection_score * 3),
          monthly_exercise    |-> 600 + dog.protection_score * 5,
          deterrent_effect    |-> IF dog.protection_score >= 80 THEN "High"
                                  ELSE IF dog.protection_score >= 60 THEN "Medium"
                                  ELSE "Low" ])

\* a >= b for two fractions with positive denominators: by whole parts, then
\* by the fractional parts cross-multiplied (which stay small)
ScoreGE(a, b) ==
    LET qa == a.n \div a.d
        qb == b.n \div b.d
    IN  \/ qa > qb
        \/ qa = qb /\ (a.n % a.d) * b.d >= (b.n % b.d) * a.d

ScoreEq(a, b) == ScoreGE(a, b) /\ ScoreGE(b, a)

-----------------------------------------------------------------------------
(* Recommendation Ranker: _get_personalized_recommendations *)

TopN == 5

\* A list variable: `items` are the references it holds, `shared` tells whether it
\* is the very list object self.real_data['dogs'] (so that an in-place sort of it
\* reorders the catalog).

\* dogs = self.real_data['dogs'] without .copy(): the catalog list itself
ListAlias(catalog) == [shared |-> TRUE, items |-> catalog]

\* self.real_data['dogs'].copy(): a new list of the same references
ListCopy(catalog) == [shared |-> FALSE, items |-> catalog]

\* the size filter left out
FilterNothing(h, dogs, size_pref) == dogs

\* [dog for dog in dogs if dog['size'] == size_pref]: a new list
FilterBySize(h, dogs, size_pref) ==
    IF size_pref # "Any"
    THEN [shared |-> FALSE,
          items  |-> SelectSeq(dogs.items, LAMBDA r : h[r].size = size_pref)]
    ELSE dogs

RECURSIVE ScoreLoop(_, _, _, _)
\* for dog in dogs: the heap after the dicts the list refers to were written
ScoreLoop(h, refs, neighborhood_data, protection_pref) ==
    IF refs = << >> THEN h
    ELSE LET r == Head(refs)
             h1 == [h EXCEPT ![r] = ScoreDog(neighborhood_data, protection_pref, h[r])]
         IN  ScoreLoop(h1, Tail(refs), neighborhood_data, protection_pref)

\* s with x put in after its first k elements
InsertAt(s, k, x) == SubSeq(s, 1, k) \o <<x>> \o SubSeq(s, k + 1, Len(s))

\* x put into the descending list `front` before the elements of equal score
InsertBeforeEqual(h, front, x) ==
    InsertAt(front,
             Cardinality({i \in DOMAIN front :
                 ~ScoreGE(h[x].compatibility_score, h[front[i]].compatibility_score)}),
             x)

RECURSIVE SortTiesReversed(_, _)
\* an ascending sort reversed: descending, but equal scores come out in reverse
\* encounter order
SortTiesReversed(h, refs) ==
    IF refs = << >> THEN << >>
    ELSE InsertBeforeEqual(h, SortTiesReversed(h, SubSeq(refs, 1, Len(refs) - 1)),
                           refs[Len(refs)])

\* x put into the descending list `front` after every element whose score is not
\* lower
InsertAfterEqual(h, front, x) ==
    InsertAt(front,
             Cardinality({i \in DOMAIN front :
                 ScoreGE(h[front[i]].compatibility_score, h[x].compatibility_score)}),
             x)

RECURSIVE SortByCompatibility(_, _)
\* dogs.sort(key=compatibility_score, reverse=True): descending and stable
SortByCompatibility(h, refs) ==
    IF refs = << >> THEN << >>
    ELSE InsertAfterEqual(h, SortByCompatibility(h, SubSeq(refs, 1, Len(refs) - 1)),
                          refs[Len(refs)])

\* return dogs[:5], with the heap and the catalog list the call leaves
RankingResult(h1, catalog, dogs, sorted) ==
    [ heap    |-> h1,
      catalog |-> IF dogs.shared THEN sorted ELSE catalog,
      dogs    |-> Take(sorted, TopN) ]

\* the sort of the scored list
SortScored(h1, catalog, dogs) ==
    RankingResult(h1, catalog, dogs, SortByCompatibility(h1, dogs.items))

\* the scoring loop over the filtered list
ScoreAndSort(h, catalog, dogs, neighborhood_data, protection_pref) ==
    SortScored(ScoreLoop(h, dogs.items, neighborhood_data, protection_pref), catalog, dogs)

\* The whole function: the heap and the catalog list it leaves, and the list returned
_get_personalized_recommendations(h, catalog, neighborhood_data, size_pref, protection_pref) ==
    ScoreAndSort(h, catalog, FilterBySize(h, ListCopy(catalog), size_pref),
                 neighborhood_data, protection_pref)

-----------------------------------------------------------------------------
(* Impact Summarizer: _calculate_impact_metrics *)

\* {} is the function with no key.  Scores are in tenths; monthly_walking_hours
\* (walking_minutes * 30 / 60) is in twentieths of an hour.
\* the impact metrics taken from the last dog of the list instead of the first
ImpactFromLastDog(h, neighborhood_data, recommended_dogs) ==
    IF recommended_dogs = << >> THEN << >>
    ELSE LET top_dog == h[recommended_dogs[Len(recommended_dogs)]]
             current_safety == neighborhood_data.safety_score
             safety_boost == top_dog.safety_improvement
             walking_minutes == top_dog.monthly_exercise
         IN  [ current_safety_score  |-> current_safety,
               new_safety_score      |-> Min(1000, current_safety + safety_boost),
               safety_improvement    |-> safety_boost,
               dogs_saved            |-> Len(recommended_dogs),
               monthly_walking_hours |-> (walking_minutes * 30 * 2) \div 60,
               deterrent_effect      |-> top_dog.deterrent_effect,
               community_connections |-> IF walking_minutes > 750 THEN "High" ELSE "Medium" ]

_calculate_impact_metrics(h, neighborhood_data, recommended_dogs) ==
    IF recommended_dogs = << >> THEN << >>
    ELSE LET top_dog == h[recommended_dogs[1]]
             current_safety == neighborhood_data.safety_score
             safety_boost == top_dog.safety_improvement
             walking_minutes == top_dog.monthly_exercise
         IN  [ current_safety_score  |-> current_safety,
               new_safety_score      |-> Min(1000, current_safety + safety_boost),
               safety_improvement    |-> safety_boost,
               dogs_saved            |-> Len(recommended_dogs),
               monthly_walking_hours |-> (walking_minutes * 30 * 2) \div 60,
               deterrent_effect      |-> top_dog.deterrent_effect,
               community_connections |-> IF walking_minutes > 750 THEN "High" ELSE "Medium" ]

-----------------------------------------------------------------------------
(* The request callback: update_recommendations *)

\* the dropdown's value when nothing is selected (None)
NoSelection == ""

NoOutcome == [kind |-> "none", dogs |-> << >>, view |-> << >>, impact |-> << >>]

\* What _create_results_layout renders for a list and its metrics: the no-match
\* message for an empty list, else the cards of the listed dicts as they are read
\* at that moment (view).
_create_results_layout(h, recommended_dogs, impact_metrics) ==
    [ kind   |-> IF recommended_dogs = << >> THEN "no_match" ELSE "results",
      dogs   |-> recommended_dogs,
      view   |-> [i \in DOMAIN recommended_dogs |-> h[recommended_dogs[i]]],
      impact |-> impact_metrics ]

\* the impact metrics and the layout of a ranking
Summarize(neighborhood_data, rec) ==
    [ heap    |-> rec.heap,
      catalog |-> rec.catalog,
      outcome |-> _create_results_layout(rec.heap, rec.dogs,
                      _calculate_impact_metrics(rec.heap, neighborhood_data, rec.dogs)) ]

\* the callback after the first early return, with the result of the lookup
RecommendFor(h, rd, neighborhood_data, size_pref, protection_pref) ==
    IF neighborhood_data = << >>
    THEN [heap |-> h, catalog |-> rd.dogs, outcome |-> [NoOutcome EXCEPT !.kind = "not_found"]]
    ELSE Summarize(neighborhood_data[1],
                   _get_personalized_recommendations(
                       h, rd.dogs, neighborhood_data[1], size_pref, protection_pref))

\* The whole callback on heap h and self.real_data rd: the heap and catalog list
\* it leaves and what it returns.
update_recommendations(h, rd, n_clicks, neighborhood, size_pref, protection_pref) ==
    IF n_clicks = 0 \/ neighborhood = NoSelection
    THEN [heap |-> h, catalog |-> rd.dogs, outcome |-> [NoOutcome EXCEPT !.kind = "prompt"]]
    ELSE RecommendFor(h, rd, DictGet(rd.neighborhoods, neighborhood), size_pref,
                      protection_pref)

\* the values of the form's options (setup_layout), and a name that is in no table
NeighborhoodNames == {"Bayview", "Marina"}

UnknownName == "Atlantis"

SizePrefs == {"Any", "Small", "Medium", "Large", "Extra Large"}

ProtectionPrefs == {"Low", "Medium", "High", "Very High"}

\* the options the requests of the model submit
RequestSizes == {"Any", "Small", "Large"}

RequestPrefs == {"Low", "Very High"}

Call(n_clicks, neighborhood, size_pref, protection_pref) ==
    [ n_clicks |-> n_clicks, neighborhood |-> neighborhood,
      size_pref |-> size_pref, protection_pref |-> protection_pref ]

\* the state an invocation with arguments `call` and result `res` leaves
Returned(call, res) ==
    /\ heap' = res.heap
    /\ real_data' = << [real_data[1] EXCEPT !.dogs = res.catalog] >>
    /\ outcome' = res.outcome
    /\ last_call' = <<call>>
    /\ repeat' = (last_call = <<call>>)

\* One invocation of the callback, run to completion without interleaving
UpdateRecommendations(n_clicks, neighborhood, size_pref, protection_pref) ==
    /\ main_pc = "serving"
    /\ callback_registered
    /\ server_running
    /\ Returned(Call(n_clicks, neighborhood, size_pref, protection_pref),
                update_recommendations(heap, real_data[1], n_clicks, neighborhood,
                                       size_pref, protection_pref))
    /\ UNCHANGED <<files_missing, csv, main_pc, callback_registered, server_running,
                   th, probe>>

Request ==
    \E n_clicks \in {0, 1}, neighborhood \in NeighborhoodNames \cup {UnknownName, NoSelection},
       size_pref \in RequestSizes, protection_pref \in RequestPrefs :
        UpdateRecommendations(n_clicks, neighborhood, size_pref, protection_pref)

-----------------------------------------------------------------------------
(* The source tables *)

MaxAnimalRows == 2

Chars_Rex == <<"R", "e", "x">>

Chars_Bo == <<"B", "o">>

Chars_Boxer == <<"B", "o", "x", "e", "r">>

Chars_Pug == <<"P", "u", "g">>

Chars_SPCA == <<"S", "P", "C", "A">>

RentalRows ==
    { [analysis_neighborhood |-> "Bayview", rent_avg |-> 2000],
      [analysis_neighborhood |-> "Marina", rent_avg |-> 4000],
      [analysis_neighborhood |-> "Marina", rent_avg |-> Unparsable] }

\* Bayview: 130 incidents (protection need Very High); Marina: 10 (Low)
CrimeTable ==
    << [Analysis_Neighborhood |-> "Bayview", rows |-> 130],
       [Analysis_Neighborhood |-> "Marina", rows |-> 10] >>

WalkabilityTable == << [neighborhood_name |-> "Bayview", NatWalkInd |-> 12] >>

OrgRow(id, state, postcode) ==
    [ organization_id |-> id, address_state |-> state, address_postcode |-> postcode,
      name |-> Chars_SPCA, phone |-> "(415) 554-3000" ]

AnimalRow(type, name, breed, size, age, org, special_needs) ==
    [ type |-> type, name |-> name, primary_breed |-> breed, size |-> size, age |-> age,
      organization_id |-> org, special_needs |-> special_needs,
      good_with_children |-> "True", house_trained |-> "", shots_current |-> "True",
      spayed_neutered |-> "False" ]

AnimalRows ==
    { AnimalRow("Dog", Chars_Rex, Chars_Boxer, "Large", "Adult", "CA1", "False"),
      AnimalRow("Dog", Chars_Bo, Chars_Pug, "Small", "Baby", "CA1", "True"),
      AnimalRow("Dog", << >>, Chars_Pug, "Small", "Young", "CA1", "False") }

TablesOf(rental, organizations, animals) ==
    [ rental |-> rental, crime |-> CrimeTable, walkability |-> WalkabilityTable,
      organizations |-> organizations, animals |-> animals ]

\* rental rows of two neighborhoods and one San Francisco organization
CityRental ==
    << [analysis_neighborhood |-> "Bayview", rent_avg |-> 2000],
       [analysis_neighborhood |-> "Marina", rent_avg |-> 4000] >>

CityOrgs == << OrgRow("CA1", "CA", "94110") >>

\* the source tables of the request specification: catalogs of up to n animal rows
SmallTables(n) ==
    { TablesOf(CityRental, CityOrgs, a) : a \in SeqsUpTo(AnimalRows, n) }

Threads == {1, 2}

IdleThread ==
    [ pc |-> "idle", call |-> << >>, neighborhood_data |-> << >>,
      dogs |-> [shared |-> FALSE, items |-> << >>], i |-> 0, ret |-> NoOutcome ]

NoProbe == [stage |-> "none"]

\* Before main() runs: the files are on disk, nothing is constructed.
InitOn(tables) ==
    /\ csv \in tables
    /\ files_missing \in {{}} \cup {{f} : f \in FileNames}
    /\ main_pc = "start"
    /\ real_data = << >>
    /\ heap = << >>
    /\ callback_registered = FALSE
    /\ server_running = FALSE
    /\ last_call = << >>
    /\ outcome = NoOutcome
    /\ repeat = FALSE
    /\ th = [t \in Threads |-> IdleThread]
    /\ probe = NoProbe

Init == InitOn(SmallTables(MaxAnimalRows))

Next ==
    \/ Construct
    \/ RunServer
    \/ Request

Spec == Init /\ [][Next]_vars

-----------------------------------------------------------------------------
(* The builders alone: wider source tables, no requests *)

BuildRentalRows == 2

BuildOrgRows == 2

BuildAnimalRows == 2

WideAnimalRows ==
    AnimalRows \cup
    { AnimalRow("Dog", Chars_Rex, Chars_Boxer, "Large", "Adult", "CA2", "False"),
      AnimalRow("Cat", << >>, Chars_Pug, "Small", "Adult", "CA1", "False") }

WideOrgRows ==
    { OrgRow("CA1", "CA", "94110"), OrgRow("CA2", "CA", "95014"), OrgRow("NV1", "NV", "89501") }

WideTables(nr, no, na) ==
    { TablesOf(r, o, a) : r \in SeqsUpTo(RentalRows, nr),
                          o \in SeqsUpTo(WideOrgRows, no),
                          a \in SeqsUpTo(WideAnimalRows, na) }

\* all five files are on disk: every read_csv succeeds
InitBuild ==
    /\ InitOn(WideTables(BuildRentalRows, BuildOrgRows, BuildAnimalRows))
    /\ files_missing = {}

NextBuild == Construct

SpecBuild == InitBuild /\ [][NextBuild]_vars

-----------------------------------------------------------------------------
(* Ranking on catalogs longer than the shortlist *)

RankDogs == 6

RankTables(n) ==
    { TablesOf(<< [analysis_neighborhood |-> "Bayview", rent_avg |-> 2000] >>, CityOrgs, a) :
        a \in [1..n ->
                 { AnimalRow("Dog", Chars_Rex, Chars_Boxer, "Large", "Adult", "CA1", "False"),
                   AnimalRow("Dog", Chars_Bo, Chars_Pug, "Large", "Young", "CA1", "False"),
                   AnimalRow("Dog", Chars_Bo, Chars_Pug, "Small", "Baby", "CA1", "True") }] }

InitRank == InitOn(RankTables(RankDogs))

\* the requests that reach the ranking
RankRequest ==
    \E size_pref \in RequestSizes, protection_pref \in RequestPrefs :
        UpdateRecommendations(1, "Bayview", size_pref, protection_pref)

NextRank ==
    \/ Construct
    \/ RunServer
    \/ RankRequest

SpecRank == InitRank /\ [][NextRank]_vars

-----------------------------------------------------------------------------
(* Impact metrics on rankings of every length up to and beyond the shortlist *)

ImpactDogs == 6

ImpactTables(n) ==
    { TablesOf(CityRental, CityOrgs, a) :
        a \in UNION { [1..k ->
                 { AnimalRow("Dog", Chars_Rex, Chars_Boxer, "Large", "Adult", "CA1", "False"),
                   AnimalRow("Dog", Chars_Bo, Chars_Pug, "Small", "Baby", "CA1", "True") }] :
                       k \in 0..n } }

InitImpact ==
    /\ InitOn(ImpactTables(ImpactDogs))
    /\ files_missing = {}

\* requests for both neighborhoods
ImpactRequest ==
    \E neighborhood \in NeighborhoodNames, size_pref \in {"Any", "Small"} :
        UpdateRecommendations(1, neighborhood, size_pref, "Low")

NextImpact ==
    \/ Construct
    \/ RunServer
    \/ ImpactRequest

SpecImpact == InitImpact /\ [][NextImpact]_vars

-----------------------------------------------------------------------------
(* Requests on catalogs that hold the least protective dogs *)

MaxWalkerDogs == 2

\* dogs of every protection score from the base score up: unrecognized, Small
\* and Large sizes, breeds with and without a protective keyword, Baby and Adult
WalkerRows ==
    { AnimalRow("Dog", Chars_Rex, breed, size, age, "CA1", "False") :
        breed \in {Chars_Pug, Chars_Boxer}, size \in {"", "Small", "Large"},
        age \in {"Baby", "Adult"} }

WalkerTables(n) ==
    { TablesOf(CityRental, CityOrgs, a) : a \in SeqsUpTo(WalkerRows, n) }

InitWalker ==
    /\ InitOn(WalkerTables(MaxWalkerDogs))
    /\ files_missing = {}

\* requests for both neighborhoods, with and without a size filter
WalkerRequest ==
    \E neighborhood \in NeighborhoodNames, size_pref \in {"Any", "Small"},
       protection_pref \in {"Low", "Very High"} :
        UpdateRecommendations(1, neighborhood, size_pref, protection_pref)

NextWalker ==
    \/ Construct
    \/ RunServer
    \/ WalkerRequest

SpecWalker == InitWalker /\ [][NextWalker]_vars

-----------------------------------------------------------------------------
(* The scoring functions applied directly *)

ProbeCrimeCounts == {0, 40, 41, 80, 81, 120, 121, 199, 200, 300}

ProbeRents == {0, 900, 1000, 1500, 2000, 2400, 3100, 8000}

ProbeSizes == {"Small", "Medium", "Large", "Extra Large", ""}

ProbeAges == {"Baby", "Young", "Adult", "Senior"}

ProbeBreeds == {Chars_Boxer, Chars_Pug}

ProbeSpecialNeeds == {"False", "True", ""}

InitScore ==
    /\ csv = TablesOf(<< >>, << >>, << >>)
    /\ files_missing = {}
    /\ main_pc = "start"
    /\ real_data = << >>
    /\ heap = << >>
    /\ callback_registered = FALSE
    /\ server_running = FALSE
    /\ last_call = << >>
    /\ outcome = NoOutcome
    /\ repeat = FALSE
    /\ th = [t \in Threads |-> IdleThread]
    /\ \E c \in ProbeCrimeCounts, rent \in ProbeRents, size \in ProbeSizes, age \in ProbeAges,
          breed \in ProbeBreeds, special_needs \in ProbeSpecialNeeds,
          protection_pref \in ProtectionPrefs :
           probe = [ stage |-> "in",
                     neighborhood_data |-> NeighborhoodProfile(c, << >>, <<rent>>),
                     dog |-> DogEntry(AnimalRow("Dog", Chars_Rex, breed, size, age, "CA1",
                                                special_needs), << >>),
                     protection_pref |-> protection_pref ]

\* the three match functions and the combined score of the scoring loop, on one
\* neighborhood profile, one catalog dog and one protection preference
ApplyScore ==
    /\ probe.stage = "in"
    /\ probe' =
          [ stage |-> "out",
            neighborhood_data |-> probe.neighborhood_data,
            dog |-> ScoreDog(probe.neighborhood_data, probe.protection_pref, probe.dog),
            protection_pref |-> probe.protection_pref,
            safety_match |-> _calculate_safety_match(probe.neighborhood_data, probe.dog),
            budget_match |-> _calculate_budget_match(probe.neighborhood_data, probe.dog),
            preference_match |-> _calculate_preference_match(probe.protection_pref, probe.dog) ]
    /\ UNCHANGED <<files_missing, csv, main_pc, real_data, heap, callback_registered,
                   server_running, last_call, outcome, repeat, th>>

NextScore == ApplyScore

SpecScore == InitScore /\ [][NextScore]_vars

-----------------------------------------------------------------------------
(* The budget match applied directly to costs and budget limits *)

\* budget_limit values (at least 50, line 116)
BudgetLimits == {50, 75, 100, 120, 155, 400}

\* monthly_cost values: the costs the catalog builder produces and others around
\* the limits, 1.2 times the limits and twice the limits
BudgetCosts ==
    { 0, 49, 50, 51, 60, 61, 70, 95, 98, 100, 101, 120, 121, 125, 133, 144, 145, 150,
      155, 175, 186, 187, 199, 200, 201, 217, 250, 310, 480, 481, 800, 801, 1000 }

InitBudget ==
    /\ csv = TablesOf(<< >>, << >>, << >>)
    /\ files_missing = {}
    /\ main_pc = "start"
    /\ real_data = << >>
    /\ heap = << >>
    /\ callback_registered = FALSE
    /\ server_running = FALSE
    /\ last_call = << >>
    /\ outcome = NoOutcome
    /\ repeat = FALSE
    /\ th = [t \in Threads |-> IdleThread]
    /\ \E budget_limit \in BudgetLimits, dog_cost \in BudgetCosts, higher_cost \in BudgetCosts :
          /\ dog_cost <= higher_cost
          /\ probe = [ stage |-> "costs", budget_limit |-> budget_limit,
                       dog_cost |-> dog_cost, higher_cost |-> higher_cost ]

\* _calculate_budget_match for two dogs under the same neighborhood
ApplyBudget ==
    /\ probe.stage = "costs"
    /\ LET neighborhood_data == [budget_limit |-> probe.budget_limit]
       IN  probe' =
             [ stage |-> "match", budget_limit |-> probe.budget_limit,
               dog_cost |-> probe.dog_cost, higher_cost |-> probe.higher_cost,
               budget_match |->
                   _calculate_budget_match(neighborhood_data, [monthly_cost |-> probe.dog_cost]),
               higher_match |->
                   _calculate_budget_match(neighborhood_data, [monthly_cost |-> probe.higher_cost]) ]
    /\ UNCHANGED <<files_missing, csv, main_pc, real_data, heap, callback_registered,
                   server_running, last_call, outcome, repeat, th>>

NextBudget == ApplyBudget

SpecBudget == InitBudget /\ [][NextBudget]_vars

-----------------------------------------------------------------------------
(* The derived metrics of a neighborhood applied directly *)

MaxWalkRows == 2

MaxRentRows == 2

\* NatWalkInd and rent_avg cells
ProfileWalks == {-4, 0, 7, 20, 24}

ProfileRents == {0, 900, 1010, 2000, 8000}

InitProfile ==
    /\ csv = TablesOf(<< >>, << >>, << >>)
    /\ files_missing = {}
    /\ main_pc = "start"
    /\ real_data = << >>
    /\ heap = << >>
    /\ callback_registered = FALSE
    /\ server_running = FALSE
    /\ last_call = << >>
    /\ outcome = NoOutcome
    /\ repeat = FALSE
    /\ th = [t \in Threads |-> IdleThread]
    /\ \E c \in ProbeCrimeCounts, walk_vals \in SeqsUpTo(ProfileWalks, MaxWalkRows),
          rent_vals \in SeqsUpTo(ProfileRents, MaxRentRows) :
           probe = [ stage |-> "rows", crime_count |-> c, walk_vals |-> walk_vals,
                     rent_vals |-> rent_vals ]

\* the body of the loop of _process_neighborhood_data for one neighborhood with
\* crime_count matching crime rows and the given walkability and rental cells
ApplyProfile ==
    /\ probe.stage = "rows"
    /\ probe' = [ stage |-> "profile", crime_count |-> probe.crime_count,
                  walk_vals |-> probe.walk_vals, rent_vals |-> probe.rent_vals,
                  profile |-> NeighborhoodProfile(probe.crime_count, probe.walk_vals,
                                                  probe.rent_vals) ]
    /\ UNCHANGED <<files_missing, csv, main_pc, real_data, heap, callback_registered,
                   server_running, last_call, outcome, repeat, th>>

NextProfile == ApplyProfile

SpecProfile == InitProfile /\ [][NextProfile]_vars

-----------------------------------------------------------------------------
(* The derivation of one dog record applied directly *)

Chars_GermanShepherdMix ==
    <<"G","e","r","m","a","n"," ","S","h","e","p","h","e","r","d"," ","M","i","x">>

Chars_PITBULL == <<"P","I","T"," ","B","U","L","L">>

\* primary_breed cells (<< >> is NaN)
DogBreeds == {Chars_Boxer, Chars_Pug, Chars_GermanShepherdMix, Chars_PITBULL, << >>}

\* cells of a boolean-like column: NaN, booleans, texts and numbers
FlagCells ==
    { "", "True", "False", "true", "TRUE", "yes", "Yes", "1", "y", "Y",
      "false", "no", "maybe", "#0", "#1", "#2" }

InitDog ==
    /\ csv = TablesOf(<< >>, << >>, << >>)
    /\ files_missing = {}
    /\ main_pc = "start"
    /\ real_data = << >>
    /\ heap = << >>
    /\ callback_registered = FALSE
    /\ server_running = FALSE
    /\ last_call = << >>
    /\ outcome = NoOutcome
    /\ repeat = FALSE
    /\ th = [t \in Threads |-> IdleThread]
    /\ \E size \in ProbeSizes, age \in ProbeAges, breed \in DogBreeds,
          special_needs \in FlagCells, good_with_children \in FlagCells :
           probe = [ stage |-> "row",
                     row |-> [ AnimalRow("Dog", Chars_Rex, breed, size, age, "CA1",
                                         special_needs)
                               EXCEPT !.good_with_children = good_with_children ] ]

\* the body of the loop of _process_dog_data for one row
ApplyDog ==
    /\ probe.stage = "row"
    /\ probe' = [ stage |-> "dog", row |-> probe.row, dog |-> DogEntry(probe.row, << >>) ]
    /\ UNCHANGED <<files_missing, csv, main_pc, real_data, heap, callback_registered,
                   server_running, last_call, outcome, repeat, th>>

NextDog == ApplyDog

SpecDog == InitDog /\ [][NextDog]_vars

-----------------------------------------------------------------------------
(* The organization filter: organization tables with and without a San
   Francisco organization, and tables longer than head(20) *)

MaxShelterRows == 2

MaxShelterDogs == 2

Chars_Max == <<"M", "a", "x">>

Chars_Ace == <<"A", "c", "e">>

Chars_Kit == <<"K", "i", "t">>

Chars_Humane == <<"H", "u", "m", "a", "n", "e">>

Chars_Paws == <<"P", "a", "w", "s">>

\* one San Francisco organization, one in California outside the allow-list,
\* one outside California
ShelterRows ==
    { OrgRow("CA1", "CA", "94110"),
      [OrgRow("CA2", "CA", "95014") EXCEPT !.name = Chars_Humane, !.phone = "(408) 555-0101"],
      [OrgRow("NV1", "NV", "89501") EXCEPT !.name = Chars_Paws, !.phone = "(775) 555-0102"] }

\* the ids of the organizations of a long table
ManyIds ==
    << "M01", "M02", "M03", "M04", "M05", "M06", "M07", "M08", "M09", "M10", "M11",
       "M12", "M13", "M14", "M15", "M16", "M17", "M18", "M19", "M20", "M21" >>

Digits == <<"0", "1", "2", "3", "4", "5", "6", "7", "8", "9">>

\* n California organizations outside the allow-list, each with its own name
ManyOrgs(n) ==
    [ i \in 1..n |->
        [ OrgRow(ManyIds[i], "CA", "95014")
          EXCEPT !.name = <<"M", Digits[(i \div 10) + 1], Digits[(i % 10) + 1]>>,
                 !.phone = "(650) 555-0103" ] ]

\* one dog name per organization
ShelterDogs ==
    { AnimalRow("Dog", Chars_Rex, Chars_Boxer, "Large", "Adult", "CA1", "False"),
      AnimalRow("Dog", Chars_Bo, Chars_Pug, "Small", "Baby", "CA2", "False"),
      AnimalRow("Dog", Chars_Max, Chars_Pug, "Medium", "Adult", "NV1", "False"),
      AnimalRow("Dog", Chars_Ace, Chars_Boxer, "Large", "Young", ManyIds[1], "False"),
      AnimalRow("Dog", Chars_Kit, Chars_Pug, "Small", "Senior", ManyIds[HeadLimit + 1], "False") }

ShelterTables(no, na) ==
    { TablesOf(CityRental, o, a) :
        o \in SeqsUpTo(ShelterRows, no) \cup {ManyOrgs(HeadLimit), ManyOrgs(HeadLimit + 1)},
        a \in SeqsUpTo(ShelterDogs, na) }

InitOrgs ==
    /\ InitOn(ShelterTables(MaxShelterRows, MaxShelterDogs))
    /\ files_missing = {}

NextOrgs == Construct

SpecOrgs == InitOrgs /\ [][NextOrgs]_vars

-----------------------------------------------------------------------------
(* Two requests in flight: the callback in steps, one per dog scored and one for
   the sort and the return *)

ConcDogs == 2

ConcTables(n) ==
    { TablesOf(CityRental, CityOrgs, a) :
        a \in [1..n ->
                 { AnimalRow("Dog", Chars_Rex, Chars_Boxer, "Large", "Adult", "CA1", "False"),
                   AnimalRow("Dog", Chars_Bo, Chars_Pug, "Small", "Baby", "CA1", "True") }] }

\* the callback is entered: both early returns, the lookup, the copy and the filter
Begin(t, n_clicks, neighborhood, size_pref, protection_pref) ==
    /\ main_pc = "serving"
    /\ callback_registered
    /\ server_running
    /\ th[t].pc = "idle"
    /\ LET call == Call(n_clicks, neighborhood, size_pref, protection_pref)
           neighborhood_data == DictGet(real_data[1].neighborhoods, neighborhood)
       IN  th' = [th EXCEPT ![t] =
              IF n_clicks = 0 \/ neighborhood = NoSelection
              THEN [IdleThread EXCEPT !.pc = "done", !.call = <<call>>,
                                      !.ret = [NoOutcome EXCEPT !.kind = "prompt"]]
              ELSE IF neighborhood_data = << >>
              THEN [IdleThread EXCEPT !.pc = "done", !.call = <<call>>,
                                      !.ret = [NoOutcome EXCEPT !.kind = "not_found"]]
              ELSE [IdleThread EXCEPT !.pc = "score", !.call = <<call>>,
                                      !.neighborhood_data = neighborhood_data,
                                      !.dogs = FilterBySize(heap, ListCopy(real_data[1].dogs), size_pref),
                                      !.i = 1]]
    /\ UNCHANGED <<files_missing, csv, main_pc, real_data, heap, callback_registered,
                   server_running, last_call, outcome, repeat, probe>>

\* one iteration of the scoring loop
ScoreStep(t) ==
    /\ th[t].pc = "score"
    /\ th[t].i <= Len(th[t].dogs.items)
    /\ LET r == th[t].dogs.items[th[t].i]
       IN  heap' = [heap EXCEPT ![r] =
                       ScoreDog(th[t].neighborhood_data[1], th[t].call[1].protection_pref, heap[r])]
    /\ th' = [th EXCEPT ![t].i = @ + 1]
    /\ UNCHANGED <<files_missing, csv, main_pc, real_data, callback_registered,
                   server_running, last_call, outcome, repeat, probe>>

\* the state in which thread t returns `res`
ThreadReturned(t, res) ==
    /\ th' = [th EXCEPT ![t].pc = "done", ![t].ret = res.outcome]
    /\ real_data' = << [real_data[1] EXCEPT !.dogs = res.catalog] >>

\* the loop is over: the sort, the slice, the impact metrics and the layout
SortReturn(t) ==
    /\ th[t].pc = "score"
    /\ th[t].i > Len(th[t].dogs.items)
    /\ ThreadReturned(t, Summarize(th[t].neighborhood_data[1],
                                   SortScored(heap, real_data[1].dogs, th[t].dogs)))
    /\ UNCHANGED <<files_missing, csv, main_pc, heap, callback_registered,
                   server_running, last_call, outcome, repeat, probe>>

InitConc == InitOn(ConcTables(ConcDogs))

NextConc ==
    \/ Construct
    \/ RunServer
    \/ \E t \in Threads, n_clicks \in {0, 1},
          neighborhood \in NeighborhoodNames \cup {UnknownName, NoSelection},
          size_pref \in RequestSizes, protection_pref \in RequestPrefs :
           Begin(t, n_clicks, neighborhood, size_pref, protection_pref)
    \/ \E t \in Threads : ScoreStep(t)
    \/ \E t \in Threads : SortReturn(t)

SpecConc == InitConc /\ [][NextConc]_vars

-----------------------------------------------------------------------------
(* Properties of the request specification Spec *)

Catalog == real_data[1].dogs

Called == last_call # << >>

\* the last invocation got past both early returns: it ranked the catalog
Ranked ==
    /\ Called
    /\ last_call[1].n_clicks # 0
    /\ last_call[1].neighborhood # NoSelection
    /\ last_call[1].neighborhood \in DictKeys(real_data[1].neighborhoods)

SomeDogScored == \E r \in DOMAIN heap : DOMAIN heap[r] \cap PerRequestFields # {}

LoadTimeFields ==
    { "name", "breed", "size", "age", "protection_score", "family_score",
      "training_score", "monthly_cost", "good_with_children", "house_trained",
      "shelter", "shelter_phone" }

LoadTimeView(dog) == [k \in LoadTimeFields |-> dog[k]]

\* C1: after any sequence of recommendation requests no dog dict of the shared
\* catalog self.real_data['dogs'] carries a per-request field (compatibility_score,
\* safety_improvement, monthly_exercise, deterrent_effect).
C1_CatalogCarriesNoRequestField ==
    DataLoaded(real_data) =>
        \A i \in DOMAIN Catalog : DOMAIN heap[Catalog[i]] \cap PerRequestFields = {}

\* C3: a request that repeats the arguments of the request just before it returns
\* the same ordered list of dogs, with the same scores and per-request fields, and
\* the same impact metrics, whatever requests ran earlier.
C3_RepeatedRequestSameResult ==
    [][(repeat' /\ last_call' = last_call) => outcome' = outcome]_vars

C3_Witness ==
    /\ repeat
    /\ outcome.kind = "results"
    /\ Len(outcome.dogs) >= 2

\* C4: once the catalog is built, every step leaves the catalog list (the same dogs
\* in the same order), every dog's load-time attributes and every neighborhood
\* profile unchanged.
C4_CatalogFrame ==
    [][main_pc # "start" =>
          /\ real_data' = real_data
          /\ DOMAIN heap' = DOMAIN heap
          /\ \A r \in DOMAIN heap : LoadTimeView(heap'[r]) = LoadTimeView(heap[r])]_vars

\* a request returned the dogs in an order other than the catalog's
C4_Witness ==
    /\ Ranked
    /\ Len(Catalog) >= 2
    /\ last_call[1].size_pref = "Any"
    /\ outcome.dogs # Take(Catalog, TopN)
    /\ Len(real_data[1].neighborhoods) >= 1

\* C5 as stated: a request for a neighborhood name that is not a key of the
\* neighborhood profiles returns the not-found outcome, scores no dog and leaves the
\* catalog unchanged.
C5_UnknownNameNotFound ==
    [][(main_pc = "serving" /\ last_call'[1].neighborhood \notin DictKeys(real_data[1].neighborhoods))
          => /\ outcome'.kind = "not_found"
             /\ heap' = heap
             /\ real_data' = real_data]_vars

\* C5 as amended: a request for a name that is not a key of the neighborhood
\* profiles scores no dog, leaves the catalog unchanged and returns no dog; it
\* returns the not-found outcome when the name is non-empty and n_clicks is not 0,
\* and the selection prompt when the name is empty or n_clicks is 0.
C5_UnknownNameNoScoring ==
    [][(main_pc = "serving" /\ last_call'[1].neighborhood \notin DictKeys(real_data[1].neighborhoods))
          => /\ outcome'.kind =
                   IF last_call'[1].n_clicks = 0 \/ last_call'[1].neighborhood = NoSelection
                   THEN "prompt" ELSE "not_found"
             /\ outcome'.dogs = << >>
             /\ outcome'.impact = << >>
             /\ heap' = heap
             /\ real_data' = real_data]_vars

\* an unknown name was looked up after an earlier request had scored dogs
C5_Witness ==
    /\ Called
    /\ last_call[1].n_clicks # 0
    /\ last_call[1].neighborhood = UnknownName
    /\ outcome.kind = "not_found"
    /\ SomeDogScored

\* C6: when the size preference is not 'Any', every returned dog has exactly that
\* size; and when no catalog dog has that size the ranked list is empty, the impact
\* metrics are empty and the request ends in the no-match result.
C6_SizeFilter ==
    (Ranked /\ last_call[1].size_pref # "Any") =>
        /\ \A i \in DOMAIN outcome.view : outcome.view[i].size = last_call[1].size_pref
        /\ outcome.kind \in {"results", "no_match"}
        /\ (\A i \in DOMAIN Catalog : heap[Catalog[i]].size # last_call[1].size_pref)
              => /\ outcome.dogs = << >>
                 /\ outcome.impact = << >>
                 /\ outcome.kind = "no_match"

\* a size no dog of a non-empty catalog has was asked for
C6_Witness ==
    /\ Ranked
    /\ last_call[1].size_pref = "Small"
    /\ Len(Catalog) >= 1
    /\ \A i \in DOMAIN Catalog : heap[Catalog[i]].size = "Large"
    /\ outcome.kind = "no_match"

\* C9: if loading any of the five source tables fails, construction yields no
\* catalog at all, the callback is never registered, the server never starts and no
\* request is ever computed.
C9_LoadFailureStopsEverything ==
    files_missing # {} =>
        /\ real_data = << >>
        /\ heap = << >>
        /\ ~callback_registered
        /\ ~server_running
        /\ main_pc # "serving"
        /\ last_call = << >>
        /\ outcome = NoOutcome

\* main() ran to its end on a failed load
C9_Witness ==
    /\ files_missing # {}
    /\ main_pc = "exited"

-----------------------------------------------------------------------------
(* Properties of the other specifications *)

\* the score a request with thread t's arguments computes for the dict `dog`
OwnScore(t, dog) ==
    CombinedScore(th[t].neighborhood_data[1], th[t].call[1].protection_pref, dog)

\* C2: when two requests run concurrently, interleaved at the per-dog scoring steps
\* and the sort, each returns a list in which every dog's compatibility_score is the
\* score computed for that request's own arguments and which is sorted descending
\* by those scores (the result of running that request alone).
C2_ConcurrentRequestsIndependent ==
    \A t \in Threads :
        (th[t].pc = "done" /\ th[t].ret.kind = "results") =>
            LET view == th[t].ret.view
            IN  /\ \A i \in DOMAIN view :
                      ScoreEq(view[i].compatibility_score, OwnScore(t, view[i]))
                /\ \A i, j \in DOMAIN view :
                      i < j => ScoreGE(OwnScore(t, view[i]), OwnScore(t, view[j]))

\* the dogs the last request ranked: the catalog filtered by its size preference
FilteredCatalog ==
    SelectSeq(Catalog, LAMBDA r : last_call[1].size_pref = "Any"
                                  \/ heap[r].size = last_call[1].size_pref)

\* the position of a dog in the catalog list
CatalogPos(r) == CHOOSE i \in DOMAIN Catalog : Catalog[i] = r

\* a ranks before b: a higher score, or the same score and earlier in the catalog
RanksBefore(a, b) ==
    \/ ~ScoreGE(heap[b].compatibility_score, heap[a].compatibility_score)
    \/ /\ ScoreEq(heap[a].compatibility_score, heap[b].compatibility_score)
       /\ CatalogPos(a) < CatalogPos(b)

\* C7: the ranked list is the first min(5, n) elements of the stable descending sort
\* by compatibility_score of the n size-filtered dogs: scores do not increase along
\* the list, equal scores keep catalog order, and no dog left out ranks before a dog
\* returned.
C7_TopFiveOfStableSort ==
    Ranked =>
        /\ Len(outcome.dogs) = Min(TopN, Len(FilteredCatalog))
        /\ Range(outcome.dogs) \subseteq Range(FilteredCatalog)
        /\ \A i, j \in DOMAIN outcome.dogs :
              i < j => RanksBefore(outcome.dogs[i], outcome.dogs[j])
        /\ \A x \in Range(outcome.dogs) :
              \A y \in Range(FilteredCatalog) \ Range(outcome.dogs) : RanksBefore(x, y)

\* more dogs than the shortlist holds were ranked, some with equal and some with
\* different scores, and the best is not the first of the catalog
C7_Witness ==
    /\ Ranked
    /\ Len(FilteredCatalog) > TopN
    /\ Len(outcome.dogs) = TopN
    /\ outcome.dogs[1] # Catalog[1]
    /\ \E i, j \in DOMAIN outcome.dogs :
          /\ i < j
          /\ ScoreEq(heap[outcome.dogs[i]].compatibility_score,
                     heap[outcome.dogs[j]].compatibility_score)
    /\ \E i, j \in DOMAIN outcome.dogs :
          ~ScoreGE(heap[outcome.dogs[j]].compatibility_score,
                   heap[outcome.dogs[i]].compatibility_score)

\* C8: for every neighborhood profile the builder produces, every catalog dog and
\* every protection preference, safety match, budget match and preference match lie
\* in [0,100] and so does compatibility_score.
C8_ScoresInRange ==
    probe.stage = "out" =>
        /\ 0 <= probe.safety_match /\ probe.safety_match <= 1000
        /\ 0 <= probe.budget_match
        /\ probe.budget_match <= 100 * probe.neighborhood_data.budget_limit
        /\ 0 <= probe.preference_match /\ probe.preference_match <= 100
        /\ 0 <= probe.dog.compatibility_score.n
        /\ probe.dog.compatibility_score.n <= 100 * probe.dog.compatibility_score.d

\* the clamp of the Very High branch acts, and so does the floor of the budget match
C8_Witness ==
    /\ probe.stage = "out"
    /\ probe.neighborhood_data.protection_need = "Very High"
    /\ probe.dog.protection_score = 100
    /\ probe.safety_match = 1000
    /\ probe.budget_match = 0

\* the neighborhoods whose derivation raises
RaisingNeighborhoods ==
    {n \in Range(unique_neighborhoods(csv.rental)) : NeighborhoodRaises(csv.rental, n)}

\* the dog rows selected for processing, and those among them whose derivation raises
SelectedDogRows == sf_dogs_of(csv.animals, csv.organizations)

RaisingDogRows == {i \in DOMAIN SelectedDogRows : DogRaises(SelectedDogRows[i])}

Built == main_pc # "start" /\ files_missing = {}

\* the neighborhood profiles built from the input without the failing neighborhoods
NeighborhoodsWithoutRaising ==
    _process_neighborhood_data(
        SelectSeq(csv.rental, LAMBDA r : r.analysis_neighborhood \notin RaisingNeighborhoods),
        csv.crime, csv.walkability)

\* C10 as stated: when the derivation of a neighborhood or a dog record raises, the
\* load still succeeds and the result is the one of the input without the failing
\* records.
C10_AsIfNotInInput ==
    Built =>
        /\ DataLoaded(real_data)
        /\ real_data[1].neighborhoods = NeighborhoodsWithoutRaising
        /\ heap = _process_dog_data(
                      SelectSeq(csv.animals, LAMBDA a : ~(a.type = "Dog" /\ DogRaises(a))),
                      csv.organizations)

\* the catalog holds exactly the derivations of the rows `ok`, in their order
DogsBuiltFrom(ok, sf_orgs) ==
    /\ heap = [i \in DOMAIN ok |-> DogEntry(ok[i], sf_orgs)]
    /\ Catalog = [i \in DOMAIN ok |-> i]

\* C10 as amended: the load still succeeds; the neighborhoods are those of the input
\* without the failing neighborhoods; the dogs are the selected rows that do not
\* raise, each with the values its derivation gives, in the order of selection.  The
\* rows are selected (organization filter and fallbacks) before any is processed,
\* so a failing row still counts for the selection.
C10_RowFailureContained ==
    Built =>
        /\ DataLoaded(real_data)
        /\ real_data[1].neighborhoods = NeighborhoodsWithoutRaising
        /\ DogsBuiltFrom(SelectSeq(SelectedDogRows, LAMBDA a : ~DogRaises(a)),
                         sf_orgs_of(csv.organizations))

\* a neighborhood and a dog row raised, and another neighborhood and a dog row
\* selected after the failing one were built
C10_Witness ==
    /\ Built
    /\ RaisingNeighborhoods # {}
    /\ Len(real_data[1].neighborhoods) >= 1
    /\ \E i \in RaisingDogRows : \E j \in DOMAIN SelectedDogRows :
          i < j /\ ~DogRaises(SelectedDogRows[j])
    /\ Len(heap) >= 1

-----------------------------------------------------------------------------
(* Properties of the neighborhood metrics, under SpecProfile *)

Profiled == probe.stage = "profile"

\* the step function of a stored safety_score (in tenths)
NeedOfStoredScore(s) ==
    IF s < 400 THEN "Very High"
    ELSE IF s < 600 THEN "High"
    ELSE IF s < 800 THEN "Medium"
    ELSE "Low"

\* C11: the stored protection_need is the step function of the stored safety_score
\* with strict lower-side boundaries (below 40 Very High, below 60 High, below 80
\* Medium, else Low); crime counts 121, 120, 81, 80, 41, 40 give Very High, High,
\* High, Medium, Medium, Low.
C11_ProtectionNeedSteps ==
    Profiled =>
        /\ probe.profile.protection_need = NeedOfStoredScore(probe.profile.safety_score)
        /\ probe.crime_count = 121 => probe.profile.protection_need = "Very High"
        /\ probe.crime_count = 120 => probe.profile.protection_need = "High"
        /\ probe.crime_count = 81 => probe.profile.protection_need = "High"
        /\ probe.crime_count = 80 => probe.profile.protection_need = "Medium"
        /\ probe.crime_count = 41 => probe.profile.protection_need = "Medium"
        /\ probe.crime_count = 40 => probe.profile.protection_need = "Low"

\* a safety_score of exactly 40 was classified
C11_Witness ==
    /\ Profiled
    /\ probe.crime_count = 120
    /\ probe.profile.safety_score = 400
    /\ probe.profile.protection_need = "High"

\* C12: for every crime count c >= 0 the safety_score is clamp(0, 100, 100 - c/2):
\* it lies in [0,100], is 100 at c = 0, is 0 for every c >= 200, and a higher crime
\* count never gives a higher score.
C12_SafetyScoreClamped ==
    Profiled =>
        /\ probe.profile.safety_score = Max(0, Min(1000, 1000 - 5 * probe.crime_count))
        /\ probe.profile.safety_score \in 0..1000
        /\ probe.crime_count = 0 => probe.profile.safety_score = 1000
        /\ probe.crime_count >= 200 => probe.profile.safety_score = 0
        /\ \A c \in ProbeCrimeCounts :
              c >= probe.crime_count =>
                  NeighborhoodProfile(c, probe.walk_vals, probe.rent_vals).safety_score
                      <= probe.profile.safety_score

\* more crimes than max_crimes were counted
C12_Witness ==
    /\ Profiled
    /\ probe.crime_count > max_crimes
    /\ probe.profile.safety_score = 0

\* avg_rent of the probed rental cells as the fraction AvgRentNum / AvgRentDen
\* (3000 when no rental row matches)
AvgRentNum == IF Len(probe.rent_vals) > 0 THEN SumSeq(probe.rent_vals) ELSE 3000

AvgRentDen == IF Len(probe.rent_vals) > 0 THEN Len(probe.rent_vals) ELSE 1

\* C13: every neighborhood profile has budget_limit >= 50, for every average rent
\* including 0; for an average rent above 1000 the budget_limit is 5% of the average
\* rent rounded to a whole unit (it differs from 5% by at most one half).
C13_BudgetLimitFloor ==
    Profiled =>
        /\ probe.profile.budget_limit >= 50
        /\ AvgRentNum > 1000 * AvgRentDen =>
              2 * Abs(100 * AvgRentDen * probe.profile.budget_limit - 5 * AvgRentNum)
                  <= 100 * AvgRentDen

\* an average rent of 0 was given the minimum budget
C13_Witness ==
    /\ Profiled
    /\ probe.rent_vals = <<0>>
    /\ probe.profile.budget_limit = 50

\* walk_score of the probed walkability cells as the fraction WalkNum / WalkDen
\* (10 when no walkability row matches)
WalkNum == IF Len(probe.walk_vals) > 0 THEN SumSeq(probe.walk_vals) ELSE 10

WalkDen == IF Len(probe.walk_vals) > 0 THEN Len(probe.walk_vals) ELSE 1

\* C20: every neighborhood profile has walkability_score in [0,100], equal to
\* clamp(0, 100, walk_score / 20 * 100) for every mean walk index, a negative or zero
\* mean included, and equal to 50 when no walkability row matches.
C20_WalkabilityClamped ==
    Profiled =>
        /\ probe.profile.walkability_score \in 0..1000
        /\ probe.profile.walkability_score =
              Max(0, Min(1000, RoundRat(1000 * WalkNum, 20 * WalkDen)))
        /\ probe.walk_vals = << >> => probe.profile.walkability_score = 500

-----------------------------------------------------------------------------
(* Properties of the impact metrics, under SpecImpact *)

\* the profile of the neighborhood the last request named
RequestedNeighborhood == DictGet(real_data[1].neighborhoods, last_call[1].neighborhood)[1]

\* C19: for a non-empty ranked list the impact metrics are computed from the first
\* (top-ranked) dog only: new_safety_score = min(100, neighborhood safety_score + that
\* dog's safety_improvement), so current safety_score <= new_safety_score <= 100, and
\* dogs_saved is the length of the ranked list, between 1 and 5.
C19_ImpactFromTopDog ==
    (Ranked /\ outcome.dogs # << >>) =>
        /\ outcome.impact.current_safety_score = RequestedNeighborhood.safety_score
        /\ outcome.impact.safety_improvement = outcome.view[1].safety_improvement
        /\ outcome.impact.new_safety_score =
              Min(1000, RequestedNeighborhood.safety_score
                        + outcome.view[1].safety_improvement)
        /\ outcome.impact.current_safety_score <= outcome.impact.new_safety_score
        /\ outcome.impact.new_safety_score <= 1000
        /\ outcome.impact.dogs_saved = Len(outcome.dogs)
        /\ outcome.impact.dogs_saved \in 1..5

\* a full shortlist whose first and last dogs differ in safety_improvement, in a
\* neighborhood where the sum passes 100
C19_Witness ==
    /\ Ranked
    /\ Len(Catalog) > TopN
    /\ outcome.impact # << >>
    /\ outcome.impact.dogs_saved = 5
    /\ outcome.view[1].safety_improvement # outcome.view[5].safety_improvement
    /\ RequestedNeighborhood.safety_score + outcome.view[1].safety_improvement > 1000
    /\ outcome.impact.new_safety_score = 1000

-----------------------------------------------------------------------------
(* Properties of the dog record derivation, under SpecDog *)

Derived == probe.stage = "dog"

\* the probed breeds that contain a protective keyword, whatever the case
KeywordBreeds == {Chars_Boxer, Chars_GermanShepherdMix, Chars_PITBULL}

\* C14: for every size, age and breed, protection_score is min(100, 40 + size bonus
\* (Large 30, Medium 20, Extra Large 35, Small 5, other 0) + 25 if the breed contains
\* a protective keyword + age bonus (Adult or Senior 10, Young 5, Baby 0)), so it
\* lies in [0,100]; a Large adult German Shepherd Mix scores 100, not 105.
C14_ProtectionScoreFormula ==
    Derived =>
        LET size_bonus == CASE probe.row.size = "Large" -> 30
                            [] probe.row.size = "Medium" -> 20
                            [] probe.row.size = "Extra Large" -> 35
                            [] probe.row.size = "Small" -> 5
                            [] OTHER -> 0
            breed_bonus == IF probe.row.primary_breed \in KeywordBreeds THEN 25 ELSE 0
            age_bonus == CASE probe.row.age \in {"Adult", "Senior"} -> 10
                           [] probe.row.age = "Young" -> 5
                           [] OTHER -> 0
        IN  /\ probe.dog.protection_score = Min(100, 40 + size_bonus + breed_bonus + age_bonus)
            /\ probe.dog.protection_score \in 0..100
            /\ (probe.row.size = "Large" /\ probe.row.age = "Adult"
                  /\ probe.row.primary_breed = Chars_GermanShepherdMix)
                  => probe.dog.protection_score = 100

\* the Large adult German Shepherd Mix was scored
C14_Witness ==
    /\ Derived
    /\ probe.row.size = "Large"
    /\ probe.row.age = "Adult"
    /\ probe.row.primary_breed = Chars_GermanShepherdMix
    /\ probe.dog.protection_score = 100

\* C17: monthly_cost is the base cost of the dog's size (Small 70, Medium 95, Large 125,
\* Extra Large 155, unrecognized 95) multiplied by 1.4 exactly when the coerced
\* special-needs flag is true, whatever the source representation of the flag: the
\* cost is inflated exactly for the dogs without the not-special-needs bonus.
C17_CostInflatedExactlyWhenFlagged ==
    Derived =>
        LET base == CASE probe.row.size = "Small" -> 70
                      [] probe.row.size = "Medium" -> 95
                      [] probe.row.size = "Large" -> 125
                      [] probe.row.size = "Extra Large" -> 155
                      [] OTHER -> 95
            flagged == _parse_boolean_safe(probe.row.special_needs)
            age_bonus == CASE probe.row.age = "Young" -> 20
                           [] probe.row.age = "Adult" -> 15
                           [] probe.row.age = "Baby" -> 10
                           [] OTHER -> 0
            no_bonus == probe.dog.training_score = 50 + age_bonus
        IN  /\ probe.dog.monthly_cost = IF flagged THEN RoundRat(base * 14, 10) ELSE base
            /\ (probe.dog.monthly_cost # base) <=> no_bonus

\* the texts of FlagCells equal, ignoring case, to 'true', 'yes', '1' or 'y'
TrueTexts == {"true", "TRUE", "yes", "Yes", "1", "y", "Y"}

\* C18 as stated: the coercion returns true exactly for the boolean true and for the
\* strings equal, ignoring case, to 'true', 'yes', '1' or 'y', and false for every
\* other source value, numbers included.
C18_TrueOnlyForTrueTexts ==
    Derived =>
        (probe.dog.good_with_children
            <=> probe.row.good_with_children \in {"True"} \cup TrueTexts)

\* C18 amended: the coercion returns true exactly for the boolean true, for the strings
\* equal, ignoring case, to 'true', 'yes', '1' or 'y', and for a number other than 0;
\* it returns false for NaN, the boolean false, every other string and the number 0.
C18_TrueForTrueTextsAndNonZero ==
    Derived =>
        (probe.dog.good_with_children
            <=> \/ probe.row.good_with_children \in {"True"} \cup TrueTexts
                \/ probe.row.good_with_children \in {"#1", "#2"})

\* an upper-case text and a non-zero number were coerced to true
C18_Witness ==
    /\ Derived
    /\ probe.row.good_with_children = "TRUE"
    /\ probe.dog.good_with_children
    /\ probe.row.special_needs = "#2"
    /\ probe.dog.training_score = 50 + 15
    /\ probe.row.age = "Adult"

-----------------------------------------------------------------------------
(* Properties of the organization filter and the shelter join, under SpecOrgs *)

\* the organization ids of the Dog rows of animals.csv that carry the name of
\* a catalog dog
OrgIdsOf(d) ==
    { csv.animals[i].organization_id :
        i \in {j \in DOMAIN csv.animals : /\ csv.animals[j].type = "Dog"
                                          /\ Take(csv.animals[j].name, 30) = d.name} }

BelongsTo(d, org_ids) == OrgIdsOf(d) # {} /\ OrgIdsOf(d) \subseteq org_ids

\* the ids of the filtered organization set: the California organizations with
\* an allow-listed postal code or, when there is none, the first 20 California
\* organizations
FilteredOrgIds ==
    LET ca == SelectSeq(csv.organizations, LAMBDA o : o.address_state = "CA")
        sf == SelectSeq(ca, LAMBDA o : o.address_postcode \in sf_zip_codes)
    IN  IF sf = << >> THEN {ca[i].organization_id : i \in 1..Min(HeadLimit, Len(ca))}
        ELSE {sf[i].organization_id : i \in DOMAIN sf}

CaliforniaOrgIds ==
    { csv.organizations[i].organization_id :
        i \in {j \in DOMAIN csv.organizations : csv.organizations[j].address_state = "CA"} }

\* C15 as stated: every dog of the built catalog belongs to an organization of the
\* filtered organization set.
C15_DogsOfFilteredOrgs ==
    Built => \A i \in DOMAIN Catalog : BelongsTo(heap[Catalog[i]], FilteredOrgIds)

\* C15 amended: every dog of the built catalog belongs to an organization of the
\* filtered organization set, unless no Dog row belongs to an organization of that
\* set; then every catalog dog belongs to some California organization.
C15_DogsOfFilteredOrgsOrCalifornia ==
    Built =>
        IF \E j \in DOMAIN csv.animals : /\ csv.animals[j].type = "Dog"
                                         /\ csv.animals[j].organization_id \in FilteredOrgIds
        THEN \A i \in DOMAIN Catalog : BelongsTo(heap[Catalog[i]], FilteredOrgIds)
        ELSE \A i \in DOMAIN Catalog : BelongsTo(heap[Catalog[i]], CaliforniaOrgIds)

\* 21 California organizations, none in San Francisco: the dog of the first one is in
\* the catalog, the dog of the 21st is not
C15_Witness ==
    /\ Built
    /\ Len(csv.organizations) = HeadLimit + 1
    /\ Len(csv.animals) = 2
    /\ csv.animals[1].organization_id = ManyIds[HeadLimit + 1]
    /\ csv.animals[2].organization_id = ManyIds[1]
    /\ Len(Catalog) = 1
    /\ heap[Catalog[1]].name = Chars_Ace

\* C16: every catalog dog has a shelter name and phone, taken from the organization
\* record whose organization id equals the dog's organization id; the placeholder
\* ('Local SF Shelter', '(415) 555-0000') is used exactly when no organization record
\* has that id.
C16_ShelterOfOwnOrganization ==
    Built =>
        \A i \in DOMAIN Catalog :
            \A id \in OrgIdsOf(heap[Catalog[i]]) :
                LET org == SelectSeq(csv.organizations, LAMBDA o : o.organization_id = id)
                IN  IF Len(org) > 0
                    THEN /\ heap[Catalog[i]].shelter = Take(org[1].name, 40)
                         /\ heap[Catalog[i]].shelter_phone = org[1].phone
                    ELSE /\ heap[Catalog[i]].shelter = LocalSFShelter
                         /\ heap[Catalog[i]].shelter_phone = "(415) 555-0000"

-----------------------------------------------------------------------------
(* Properties of the budget match, under SpecBudget *)

\* C21: for every dog cost and every budget limit >= 50, the budget match is 100 when
\* cost <= limit, 80 when limit < cost <= 1.2 * limit, and max(0, 100 - (cost - limit) /
\* limit * 100) otherwise (cost 150 with limit 100 gives 50); it lies in [0,100] and
\* does not increase when the cost increases with the limit fixed.  (The recorded
\* values are the matches multiplied by the limit.)
C21_BudgetMatchTiers ==
    probe.stage = "match" =>
        LET l == probe.budget_limit
            c == probe.dog_cost
        IN  /\ l >= 50
            /\ c <= l => probe.budget_match = 100 * l
            /\ (l < c /\ 10 * c <= 12 * l) => probe.budget_match = 80 * l
            /\ (10 * c > 12 * l /\ c < 2 * l) => probe.budget_match = 100 * (2 * l - c)
            /\ c >= 2 * l => probe.budget_match = 0
            /\ (c = 150 /\ l = 100) => probe.budget_match = 50 * l
            /\ probe.budget_match >= 0
            /\ probe.budget_match <= 100 * l
            /\ probe.higher_match <= probe.budget_match

\* cost 150 under limit 100 was matched at 50, a cost past twice the limit at 0
C21_Witness ==
    /\ probe.stage = "match"
    /\ probe.budget_limit = 100
    /\ probe.dog_cost = 150
    /\ probe.budget_match = 50 * 100
    /\ probe.higher_cost = 250
    /\ probe.higher_match = 0

-----------------------------------------------------------------------------
(* Properties of the derived benefits, under SpecWalker *)

\* C22: every catalog dog has protection_score >= 40, so every scored dog has
\* monthly_exercise >= 80 and safety_improvement >= 12 (held in tenths), and for every
\* non-empty ranked list the impact metric community_connections is 'High', never
\* 'Medium'.
C22_CommunityConnectionsHigh ==
    /\ Built => \A i \in DOMAIN Catalog : heap[Catalog[i]].protection_score >= 40
    /\ \A r \in DOMAIN heap :
          DOMAIN heap[r] \cap PerRequestFields # {} =>
              /\ heap[r].monthly_exercise >= 800
              /\ heap[r].safety_improvement >= 120
    /\ (Ranked /\ outcome.dogs # << >>) => outcome.impact.community_connections = "High"

\* the top dog of a ranked list has the base protection score 40, walks 80 minutes
\* and the metric is 'High'
C22_Witness ==
    /\ Ranked
    /\ outcome.dogs # << >>
    /\ heap[outcome.dogs[1]].protection_score = 40
    /\ heap[outcome.dogs[1]].monthly_exercise = 800
    /\ heap[outcome.dogs[1]].safety_improvement = 120
    /\ outcome.impact.community_connections = "High"

====
